---- MODULE Spec2Model ----
(***************************************************************************)
(* The Netflix catalogue dashboard of dashnetflix.py as a state machine.   *)
(*                                                                         *)
(* The script is a Streamlit page: every interaction runs the whole file   *)
(* again from its first line (the catalogue is read again, every frame and *)
(* table is rebuilt), and only the widget values and st.session_state      *)
(* survive from one pass to the next.  One pass of the script is the       *)
(* action RunScript; the map's click handler is handle_country_click.      *)
(*                                                                         *)
(* Text is modelled as sequences of one-character strings, so that         *)
(* str.split, str.strip, str.contains and the \d+ search are computed on   *)
(* characters.  A DataFrame is the sequence of its rows, each row a record *)
(* that carries its index label idx; a Counter is the sequence of its      *)
(* <<key, count>> items in insertion order.                                *)
(***************************************************************************)
EXTENDS Integers, Sequences, FiniteSets, TLC

VARIABLES
    csv,                 \* netflix_titles.csv: the rows of the file
    started,             \* TRUE once the script has run
    selected_year,       \* the sidebar selectbox's value
    session_state,       \* st.session_state['selected_country']
    df, movies, tv_shows,
    years,
    df_filtered, movies_filtered, tv_shows_filtered,
    movie_genre_counts, tv_genre_counts,   \* extract_genres(...) of lines 67, 79
    movie_genres, tv_genres,
    country_counts, country_df,
    fuzzy_calls,         \* the names handed to get_alpha3_code by line 105
    exception,           \* the exception that ended the pass, "None" if none did
    selected_country,    \* line 127's local
    country_data, tv_genres_country, movie_genres_country,
    first_lookup,        \* observer: name -> result of its first fuzzy lookup
    memo                 \* observer: an earlier pass, kept for comparison

vars == <<csv, started, selected_year, session_state, df, movies, tv_shows,
          years, df_filtered, movies_filtered, tv_shows_filtered,
          movie_genre_counts, tv_genre_counts, movie_genres, tv_genres,
          country_counts, country_df, fuzzy_calls, exception,
          selected_country, country_data, tv_genres_country,
          movie_genres_country, first_lookup, memo>>

(***************************************************************************)
(* Bounds of the model.                                                    *)
(***************************************************************************)
MaxRows == 2        \* rows of the catalogue file
MaxStrLen == 3      \* characters of a duration cell
NumGenres == 11     \* distinct genre names of the genre catalogues

(***************************************************************************)
(* Values.                                                                 *)
(***************************************************************************)
\* A missing cell of a text column (read_csv's NaN).
NaN == <<"NaN">>
\* Python's None where a text is expected (session_state.get's default).
NoneText == <<"None">>
\* A missing number: the NaN of year_added and month_added, the <NA> of
\* duration_minutes.
NA == -1
\* The selectbox's "All" option, among the integer years.
All == 0
\* most_common(10)
TopN == 10

NaT == [year |-> NA, month |-> NA, day |-> NA]

Range(s) == {s[i] : i \in 1..Len(s)}

NoDup(s) == \A i, j \in 1..Len(s) : s[i] = s[j] => i = j

RECURSIVE Concat(_)
Concat(lists) ==
    IF lists = <<>> THEN <<>> ELSE Head(lists) \o Concat(Tail(lists))

(***************************************************************************)
(* Text.                                                                   *)
(***************************************************************************)
IsPrefix(p, s) == Len(p) <= Len(s) /\ SubSeq(s, 1, Len(p)) = p

\* s.split(sep): the pieces between the non-overlapping occurrences of sep,
\* found left to right; "".split(sep) is [""].
RECURSIVE str_split(_, _)
str_split(s, sep) ==
    IF s = <<>> THEN << <<>> >>
    ELSE IF IsPrefix(sep, s)
         THEN << <<>> >> \o str_split(SubSeq(s, Len(sep) + 1, Len(s)), sep)
    ELSE LET r == str_split(Tail(s), sep)
         IN  << <<Head(s)>> \o Head(r) >> \o Tail(r)

Whitespace == {" "}

RECURSIVE lstrip(_)
lstrip(s) ==
    IF s # <<>> /\ Head(s) \in Whitespace THEN lstrip(Tail(s)) ELSE s

RECURSIVE rstrip(_)
rstrip(s) ==
    IF s # <<>> /\ s[Len(s)] \in Whitespace
    THEN rstrip(SubSeq(s, 1, Len(s) - 1)) ELSE s

\* s.strip()
str_strip(s) == rstrip(lstrip(s))

\* Series.str.contains(pat, na=False) on one cell: pat occurs somewhere in
\* the cell (the names of the model hold no regex metacharacter); a missing
\* cell gives False.
str_contains(cell, pat) ==
    /\ cell # NaN
    /\ \E i \in 1..(Len(cell) + 1) :
          /\ i + Len(pat) - 1 <= Len(cell)
          /\ SubSeq(cell, i, i + Len(pat) - 1) = pat

Sep == <<",", " ">>

(***************************************************************************)
(* Dates.  A date cell is a sequence of tokens, month name, day, year;     *)
(* pd.to_datetime(errors='coerce') turns every cell it cannot read as a    *)
(* date into NaT.                                                          *)
(***************************************************************************)
MonthNumber == ("January" :> 1) @@ ("September" :> 9)
Numeral == ("1" :> 1) @@ ("25" :> 25) @@ ("31" :> 31)
           @@ ("2020" :> 2020) @@ ("2021" :> 2021)
DaysIn == (1 :> 31) @@ (9 :> 30)

to_datetime(cell) ==
    IF /\ cell # NaN
       /\ Len(cell) = 3
       /\ cell[1] \in DOMAIN MonthNumber
       /\ cell[2] \in DOMAIN Numeral
       /\ cell[3] \in DOMAIN Numeral
       /\ Numeral[cell[2]] <= DaysIn[MonthNumber[cell[1]]]
    THEN [year |-> Numeral[cell[3]], month |-> MonthNumber[cell[1]],
          day |-> Numeral[cell[2]]]
    ELSE NaT

dt_year(d) == IF d = NaT THEN NA ELSE d.year
dt_month(d) == IF d = NaT THEN NA ELSE d.month

(***************************************************************************)
(* Lines 14-20: load and preprocess.                                       *)
(***************************************************************************)
LoadRow(file, i) ==
    LET d == to_datetime(file[i].date_added)
    IN  [idx |-> i,
         type |-> file[i].type,
         country |-> file[i].country,
         date_added |-> d,
         year_added |-> dt_year(d),
         month_added |-> dt_month(d),
         listed_in |-> file[i].listed_in,
         duration |-> file[i].duration]

\* As Load, with the rows whose date cannot be read dropped.
LoadDatedOnly(file) ==
    SelectSeq([i \in 1..Len(file) |-> LoadRow(file, i)],
              LAMBDA r : r.date_added # NaT)

Load(file) == [i \in 1..Len(file) |-> LoadRow(file, i)]

IsMovie(r) == r.type = "Movie"
IsTVShow(r) == r.type = "TV Show"

(***************************************************************************)
(* collections.Counter: the items in insertion order.                      *)
(***************************************************************************)
CounterKeys(c) == [i \in 1..Len(c) |-> c[i][1]]

\* c[key]: 0 for a key the Counter does not hold.
CounterGet(c, key) ==
    IF \E i \in 1..Len(c) : c[i][1] = key
    THEN LET i == CHOOSE i \in 1..Len(c) : c[i][1] = key IN c[i][2]
    ELSE 0

CounterAdd(c, key) ==
    IF \E i \in 1..Len(c) : c[i][1] = key
    THEN LET i == CHOOSE i \in 1..Len(c) : c[i][1] = key
         IN  [c EXCEPT ![i] = <<key, c[i][2] + 1>>]
    ELSE Append(c, <<key, 1>>)

\* Counter(iterable)
RECURSIVE Counter(_)
Counter(list) ==
    IF list = <<>> THEN <<>>
    ELSE CounterAdd(Counter(SubSeq(list, 1, Len(list) - 1)), list[Len(list)])

\* As InsertByCount, for a sort without reverse=True.
InsertByCountAscending(sorted, item) ==
    LET k == Cardinality({i \in 1..Len(sorted) : sorted[i][2] <= item[2]})
    IN  SubSeq(sorted, 1, k) \o <<item>> \o SubSeq(sorted, k + 1, Len(sorted))

\* sorted(items, key=count, reverse=True): a stable sort, so that items of
\* equal count keep their insertion order.
InsertByCount(sorted, item) ==
    LET k == Cardinality({i \in 1..Len(sorted) : sorted[i][2] >= item[2]})
    IN  SubSeq(sorted, 1, k) \o <<item>> \o SubSeq(sorted, k + 1, Len(sorted))

RECURSIVE SortedByCount(_)
SortedByCount(items) ==
    IF items = <<>> THEN <<>>
    ELSE InsertByCount(SortedByCount(SubSeq(items, 1, Len(items) - 1)),
                       items[Len(items)])

\* As most_common, with the first n items in insertion order: items()[:n].
most_common_unsorted(c, n) == SubSeq(c, 1, IF n < Len(c) THEN n ELSE Len(c))

\* Counter.most_common(n): heapq.nlargest(n, items, key=count), which is
\* sorted(items, key=count, reverse=True)[:n].
most_common(c, n) ==
    LET s == SortedByCount(c)
    IN  SubSeq(s, 1, IF n < Len(s) THEN n ELSE Len(s))

dropna(series) == SelectSeq(series, LAMBDA v : v # NaN)

(***************************************************************************)
(* Lines 22-25: genre extractor.                                           *)
(***************************************************************************)
\* As extract_genres, with fillna('Unknown') in place of dropna().
extract_genres_fillna(genre_series) ==
    LET genres == [i \in 1..Len(genre_series) |->
                      IF genre_series[i] = NaN
                      THEN << <<"U", "n", "k", "n", "o", "w", "n">> >>
                      ELSE str_split(genre_series[i], Sep)]
    IN  Counter(Concat(genres))

extract_genres(genre_series) ==
    LET kept == dropna(genre_series)
        genres == [i \in 1..Len(kept) |-> str_split(kept[i], Sep)]
    IN  Counter(Concat(genres))

listed_in_of(frame) == [i \in 1..Len(frame) |-> frame[i].listed_in]
country_of(frame) == [i \in 1..Len(frame) |-> frame[i].country]

(***************************************************************************)
(* Lines 27-33: alpha-3 code of a country name.  pycountry's fuzzy search  *)
(* gives the matching countries, best first, and raises LookupError when   *)
(* there is none.                                                          *)
(***************************************************************************)
Niger == <<"N", "i", "g", "e", "r">>
Nigeria == <<"N", "i", "g", "e", "r", "i", "a">>
Narnia == <<"N", "a", "r", "n", "i", "a">>

PyCountry == (Niger :> <<"NER", "NGA">>) @@ (Nigeria :> <<"NGA">>)

\* The matches; no match (the empty sequence) is the raised LookupError.
search_fuzzy(country_name) ==
    IF country_name \in DOMAIN PyCountry THEN PyCountry[country_name] ELSE <<>>

\* As get_alpha3_code, without the except clause: the LookupError leaves
\* the function.
get_alpha3_code_uncaught(country_name) ==
    LET found == search_fuzzy(country_name)
    IN  IF found = <<>> THEN "raise LookupError" ELSE found[1]

\* "None" is Python's None; "raise LookupError" stands for an exception that
\* leaves the function, which the except clause of lines 32-33 rules out.
get_alpha3_code(country_name) ==
    LET found == search_fuzzy(country_name)
    IN  IF found = <<>> THEN "None" ELSE found[1]

(***************************************************************************)
(* Lines 38-51: the year selection and the filter.                         *)
(***************************************************************************)
RECURSIVE SortedDescending(_)
SortedDescending(S) ==
    IF S = {} THEN <<>>
    ELSE LET m == CHOOSE x \in S : \A y \in S : y <= x
         IN  <<m>> \o SortedDescending(S \ {m})

\* sorted(df['year_added'].dropna().unique().astype(int), reverse=True)
YearsOf(frame) ==
    SortedDescending({frame[i].year_added : i \in 1..Len(frame)} \ {NA})

\* As YearEquals, with a missing year taken to match every year.
YearEqualsOrMissing(frame, y) ==
    SelectSeq(frame, LAMBDA r : r.year_added = NA \/ r.year_added = y)

\* frame[frame['year_added'] == y]: a missing year equals nothing.
YearEquals(frame, y) ==
    SelectSeq(frame, LAMBDA r : r.year_added # NA /\ r.year_added = y)

YearFilter(frame, y) == IF y # All THEN YearEquals(frame, y) ELSE frame

(***************************************************************************)
(* Lines 97-106: the country table and the map's data.                     *)
(***************************************************************************)
CountryCounts(frame) ==
    LET kept == dropna(country_of(frame))
        lists == [i \in 1..Len(kept) |-> str_split(kept[i], Sep)]
        flat == Concat(lists)
    IN  Counter([i \in 1..Len(flat) |-> str_strip(flat[i])])

\* pd.DataFrame(country_counts.items(), ...) with the alpha_3 column of
\* line 105.
CountryFrame(counts) ==
    [i \in 1..Len(counts) |->
        [country |-> counts[i][1], count |-> counts[i][2],
         alpha_3 |-> get_alpha3_code(counts[i][1])]]

\* As FuzzyLookups, behind a cache that outlives the pass: only the names
\* never looked up before reach the fuzzy search.
FuzzyLookupsCached(counts) ==
    SelectSeq(CounterKeys(counts), LAMBDA name : name \notin DOMAIN first_lookup)

\* country_df['country'].apply(get_alpha3_code): the names the fuzzy search
\* is run on, one call for each row of the country table.
FuzzyLookups(counts) == CounterKeys(counts)

\* country_df.dropna(subset=['alpha_3'])
DropUnresolved(frame) == SelectSeq(frame, LAMBDA r : r.alpha_3 # "None")

Raised(frame) == \E i \in 1..Len(frame) : frame[i].alpha_3 = "raise LookupError"

(***************************************************************************)
(* Lines 125-131: the records of the clicked country.                      *)
(***************************************************************************)
Truthy(text) == text # NoneText /\ text # <<>>

CountryData(frame, country) ==
    SelectSeq(frame, LAMBDA r : str_contains(r.country, country))

(***************************************************************************)
(* Line 190: duration in minutes.  str.extract(r'(\d+)') gives the first   *)
(* run of digits found in the cell, NaN for a missing cell or one with no  *)
(* digit; to_numeric reads it as a decimal number.                         *)
(***************************************************************************)
DigitValue == ("0" :> 0) @@ ("1" :> 1) @@ ("2" :> 2) @@ ("3" :> 3)
              @@ ("4" :> 4) @@ ("5" :> 5) @@ ("6" :> 6) @@ ("7" :> 7)
              @@ ("8" :> 8) @@ ("9" :> 9)
IsDigit(ch) == ch \in DOMAIN DigitValue

\* The longest run of digits that starts s.
RECURSIVE DigitRun(_)
DigitRun(s) ==
    IF s # <<>> /\ IsDigit(Head(s)) THEN <<Head(s)>> \o DigitRun(Tail(s))
    ELSE <<>>

\* As str_extract_digits, for a pattern anchored at the start: '^(\d+)'.
str_extract_leading_digits(cell) ==
    IF cell = NaN \/ DigitRun(cell) = <<>> THEN NaN ELSE DigitRun(cell)

\* re.search(r'(\d+)', cell).group(1): the leftmost match, taken greedily.
RECURSIVE str_extract_digits(_)
str_extract_digits(cell) ==
    IF cell = NaN \/ cell = <<>> THEN NaN
    ELSE IF IsDigit(Head(cell)) THEN DigitRun(cell)
    ELSE str_extract_digits(Tail(cell))

RECURSIVE to_numeric(_)
to_numeric(text) ==
    IF text = NaN THEN NA
    ELSE IF text = <<>> THEN 0
    ELSE 10 * to_numeric(SubSeq(text, 1, Len(text) - 1))
         + DigitValue[text[Len(text)]]

duration_minutes_of(cell) == to_numeric(str_extract_digits(cell))

\* movies_filtered['duration_minutes'] = ...
WithDurationMinutes(frame) ==
    [i \in 1..Len(frame) |->
        ("duration_minutes" :> duration_minutes_of(frame[i].duration))
        @@ frame[i]]

(***************************************************************************)
(* One pass of the script, with year chosen in the sidebar.                *)
(***************************************************************************)
\* As ScriptFrame, with the frame of the pass before kept and filtered again.
ScriptFrameKept == IF started THEN df_filtered ELSE Load(csv)

\* Lines 14-17: every pass reads the file again.
ScriptFrame == Load(csv)

\* What the page shows after a pass.
Views ==
    [df_filtered |-> df_filtered,
     movies_filtered |-> movies_filtered,
     tv_shows_filtered |-> tv_shows_filtered,
     movie_genres |-> movie_genres,
     tv_genres |-> tv_genres,
     country_counts |-> country_counts,
     country_df |-> country_df,
     country_data |-> country_data,
     tv_genres_country |-> tv_genres_country,
     movie_genres_country |-> movie_genres_country,
     exception |-> exception]

Config == <<selected_year, selected_country>>

RunScript(year, keep) ==
    LET loaded == ScriptFrame
        all_movies == SelectSeq(loaded, IsMovie)
        all_tv_shows == SelectSeq(loaded, IsTVShow)
        f_df == YearFilter(loaded, year)
        f_movies == YearFilter(all_movies, year)
        f_tv_shows == YearFilter(all_tv_shows, year)
        m_counts == extract_genres(listed_in_of(f_movies))
        t_counts == extract_genres(listed_in_of(f_tv_shows))
        c_counts == CountryCounts(f_df)
        c_frame == CountryFrame(c_counts)
        ok == ~Raised(c_frame)
        chosen == IF ok THEN session_state ELSE NoneText
        c_data == IF Truthy(chosen) THEN CountryData(f_df, chosen) ELSE <<>>
        c_tv_shows == SelectSeq(c_data, IsTVShow)
        c_movies == SelectSeq(c_data, IsMovie)
        timed == IF ok THEN WithDurationMinutes(f_movies) ELSE f_movies
    IN  /\ started' = TRUE
        /\ selected_year' = year
        /\ df' = loaded
        /\ tv_shows' = all_tv_shows
        /\ years' = YearsOf(loaded)
        /\ df_filtered' = f_df
        /\ tv_shows_filtered' = f_tv_shows
        /\ movie_genre_counts' = m_counts
        /\ tv_genre_counts' = t_counts
        /\ movie_genres' = most_common(m_counts, TopN)
        /\ tv_genres' = most_common(t_counts, TopN)
        /\ country_counts' = c_counts
        /\ fuzzy_calls' = FuzzyLookups(c_counts)
        /\ exception' = IF ok THEN "None" ELSE "LookupError"
        /\ country_df' = IF ok THEN DropUnresolved(c_frame) ELSE <<>>
        /\ selected_country' = chosen
        /\ country_data' = c_data
        /\ tv_genres_country' =
              most_common(extract_genres(listed_in_of(c_tv_shows)), TopN)
        /\ movie_genres_country' =
              most_common(extract_genres(listed_in_of(c_movies)), TopN)
        \* Line 190 adds the column to movies_filtered, which is movies
        \* itself when no year is chosen (line 50) and a selection of it
        \* otherwise (line 46).
        /\ movies_filtered' = timed
        /\ movies' = IF year = All THEN timed ELSE all_movies
        /\ first_lookup' =
              [name \in DOMAIN first_lookup \cup Range(FuzzyLookups(c_counts)) |->
                  IF name \in DOMAIN first_lookup THEN first_lookup[name]
                  ELSE get_alpha3_code(name)]
        \* since: a pass of another configuration has run after the kept one.
        /\ memo' = IF keep
                   THEN <<[config |-> Config', views |-> Views', since |-> FALSE]>>
                   ELSE IF memo = <<>> THEN memo
                   ELSE <<[memo[1] EXCEPT
                             !.since = @ \/ Config' # memo[1].config]>>
        /\ UNCHANGED <<csv, session_state>>

\* The first run of the page: the selectbox shows its first option.
Start(keep) ==
    /\ ~started
    /\ RunScript(All, keep)

\* Line 41: a choice in the sidebar runs the script again.
SelectYear(year, keep) ==
    /\ started
    /\ year \in {All} \cup Range(years)
    /\ RunScript(year, keep)

(***************************************************************************)
(* Lines 118-123: a click on the map.  The points of the event are the     *)
(* countries under the pointer, named by the map's hover_name column.      *)
(***************************************************************************)
ClickEvents ==
    {[points |-> <<>>]}
    \cup {[points |-> <<[hovertext |-> country_df[i].country]>>] :
             i \in 1..Len(country_df)}

handle_country_click(event) ==
    /\ started
    /\ session_state' = IF event.points # <<>>
                        THEN event.points[1].hovertext
                        ELSE session_state
    /\ UNCHANGED <<csv, started, selected_year, df, movies, tv_shows, years,
                   df_filtered, movies_filtered, tv_shows_filtered,
                   movie_genre_counts, tv_genre_counts, movie_genres,
                   tv_genres, country_counts, country_df, fuzzy_calls,
                   exception, selected_country, country_data,
                   tv_genres_country, movie_genres_country, first_lookup,
                   memo>>

YearOptions == {All} \cup {Numeral[t] : t \in {"2020", "2021"}}

Next ==
    \/ Start(FALSE)
    \/ \E year \in YearOptions : SelectYear(year, FALSE)
    \/ \E event \in ClickEvents : handle_country_click(event)

\* The same program, with the observer free to keep any pass in memo.
NextObserved ==
    \/ \E keep \in BOOLEAN : Start(keep)
    \/ \E year \in YearOptions, keep \in BOOLEAN : SelectYear(year, keep)
    \/ \E event \in ClickEvents : handle_country_click(event)

(***************************************************************************)
(* Catalogue files.                                                        *)
(***************************************************************************)
Rows(types, countries, dates, genres, durations) ==
    [type : types, country : countries, date_added : dates,
     listed_in : genres, duration : durations]

\* read_csv types a column as text when some cell of it holds text: the
\* .str accessor of lines 24, 100, 130 and 190 needs that of country,
\* listed_in and duration.  A file of no rows has text columns too.
TextColumns(file) ==
    \/ file = <<>>
    \/ /\ \E i \in 1..Len(file) : file[i].country # NaN
       /\ \E i \in 1..Len(file) : file[i].listed_in # NaN
       /\ \E i \in 1..Len(file) : file[i].duration # NaN

Files(rows) ==
    {file \in UNION {[1..n -> rows] : n \in 0..MaxRows} : TextColumns(file)}

InitWith(files) ==
    /\ csv \in files
    /\ started = FALSE
    /\ selected_year = All
    /\ session_state = NoneText
    /\ df = <<>> /\ movies = <<>> /\ tv_shows = <<>>
    /\ years = <<>>
    /\ df_filtered = <<>> /\ movies_filtered = <<>> /\ tv_shows_filtered = <<>>
    /\ movie_genre_counts = <<>> /\ tv_genre_counts = <<>>
    /\ movie_genres = <<>> /\ tv_genres = <<>>
    /\ country_counts = <<>> /\ country_df = <<>>
    /\ fuzzy_calls = <<>>
    /\ exception = "None"
    /\ selected_country = NoneText
    /\ country_data = <<>>
    /\ tv_genres_country = <<>> /\ movie_genres_country = <<>>
    /\ first_lookup = <<>>
    /\ memo = <<>>

Sept2020 == <<"September", "25", "2020">>
Jan2021 == <<"January", "1", "2021">>
Sept31 == <<"September", "31", "2020">>
Invalid == <<"invalid">>

\* Titles of both types with every kind of date cell.
DatedRows ==
    Rows({"Movie", "TV Show"}, {Niger}, {NaN, Invalid, Sept31, Sept2020, Jan2021},
         {<<"a">>}, {<<"9", "0", " ", "m">>})

Init == InitWith(Files(DatedRows))

Spec == Init /\ [][Next]_vars

Movie90 == <<"9", "0", " ", "m">>

\* Movies of two years over the kinds of country cell: missing, one name,
\* a name that holds another, a name pycountry does not know, two names.
GeoRows ==
    Rows({"Movie"},
         {NaN, Niger, Nigeria, Narnia, Niger \o <<" ">> \o Sep \o Narnia},
         {Sept2020, Jan2021}, {<<"a">>}, {Movie90})

InitGeo == InitWith(Files(GeoRows))

SpecGeo == InitGeo /\ [][Next]_vars

\* Titles of both types, dated or not, whose country and genre cells are
\* missing, or list two values.
AggRows ==
    Rows({"Movie", "TV Show"}, {NaN}, {Sept2020, Invalid}, {NaN}, {Movie90})
    \cup Rows({"Movie", "TV Show"}, {Niger \o <<" ">> \o Sep \o Narnia},
              {Sept2020, Invalid}, {<<"a">>}, {Movie90})
    \cup Rows({"Movie", "TV Show"}, {Narnia \o Sep \o Niger},
              {Sept2020, Invalid}, {<<"b">> \o Sep \o <<"a">>}, {Movie90})

InitAgg == InitWith(Files(AggRows))

SpecAgg == InitAgg /\ [][Next]_vars

\* A few whole titles, for the passes the observer compares.
PageRows ==
    Rows({"Movie", "TV Show"}, {Niger}, {Sept2020}, {<<"a">>}, {Movie90})
    \cup Rows({"Movie", "TV Show"}, {Nigeria}, {Jan2021},
              {<<"b">> \o Sep \o <<"a">>}, {NaN})
    \cup Rows({"Movie", "TV Show"}, {NaN}, {NaN}, {NaN}, {<<"m", "9">>})

InitPage == InitWith(Files(PageRows))

SpecPage == InitPage /\ [][NextObserved]_vars

GenreNames == <<"a", "b", "c", "d", "e", "f", "g", "h", "i", "j", "k", "l",
                "m", "n">>

\* The cell that lists the genres first .. last.
RECURSIVE GenreCell(_, _)
GenreCell(first, last) ==
    IF first = last THEN <<GenreNames[first]>>
    ELSE <<GenreNames[first]>> \o Sep \o GenreCell(first + 1, last)

\* Titles whose genre cells list few genres or, against most_common(10),
\* nearly all or all of the NumGenres names.
GenreRows ==
    Rows({"Movie", "TV Show"}, {Niger}, {Sept2020},
         {GenreCell(1, 1), GenreCell(1, 2), GenreCell(1, NumGenres - 1),
          GenreCell(1, NumGenres), GenreCell(NumGenres, NumGenres),
          GenreCell(NumGenres - 1, NumGenres)},
         {Movie90})

InitGenres == InitWith(Files(GenreRows))

SpecGenres == InitGenres /\ [][Next]_vars

DurationChars == {"9", "0", " ", "m"}

\* Every text of 1 to n characters.
RECURSIVE Texts(_)
Texts(n) ==
    IF n = 0 THEN {}
    ELSE {<<ch>> : ch \in DurationChars}
         \cup {t \o <<ch>> : t \in Texts(n - 1), ch \in DurationChars}

\* A movie with any duration cell of up to MaxStrLen characters, alone or
\* followed by a movie with no duration cell.
DurationRows ==
    Rows({"Movie"}, {Niger}, {Sept2020}, {<<"a">>}, Texts(MaxStrLen))

Untimed ==
    [type |-> "Movie", country |-> Niger, date_added |-> Jan2021,
     listed_in |-> <<"a">>, duration |-> NaN]

InitDurations ==
    InitWith({<<r>> : r \in DurationRows} \cup {<<r, Untimed>> : r \in DurationRows})

SpecDurations == InitDurations /\ [][Next]_vars

(***************************************************************************)
(* Properties.                                                             *)
(***************************************************************************)
IdxOf(frame) == [i \in 1..Len(frame) |-> frame[i].idx]

Increasing(s) == \A i, j \in 1..Len(s) : i < j => s[i] < s[j]

\* The date cells of the catalogues that name a day of the calendar.
WellFormedDates == {Sept2020, Jan2021}

\* C3: loading keeps every row of the file in its place, whatever its date:
\* the frame has the file's length and order, year_added and month_added
\* are present exactly when date_added could be read, a row whose date
\* cannot be read is kept with all three missing, and the pass raises
\* nothing.
C3_LoadKeepsEveryRow ==
    started =>
        /\ exception = "None"
        /\ Len(df) = Len(csv)
        /\ \A i \in 1..Len(df) :
              LET parsed == csv[i].date_added \in WellFormedDates
              IN  /\ df[i].idx = i
                  /\ df[i].type = csv[i].type
                  /\ df[i].country = csv[i].country
                  /\ df[i].listed_in = csv[i].listed_in
                  /\ df[i].duration = csv[i].duration
                  /\ (df[i].date_added # NaT) <=> parsed
                  /\ (df[i].year_added # NA) <=> parsed
                  /\ (df[i].month_added # NA) <=> parsed
                  /\ parsed => df[i].year_added = Numeral[csv[i].date_added[3]]

C3_Witness ==
    /\ started
    /\ Len(csv) = 2
    /\ csv[1].date_added = Invalid
    /\ csv[2].date_added = Sept2020
    /\ df[1].date_added = NaT /\ df[1].year_added = NA /\ df[1].month_added = NA
    /\ df[2].year_added = 2020

\* C9: with "All" selected the three filtered frames are the whole frame,
\* its movies and its TV shows; with a year selected, df_filtered holds
\* exactly the rows added in that year, and movies_filtered and
\* tv_shows_filtered are its movies and its TV shows, two disjoint parts of
\* it.  A row with no year is in the "All" view and in no year's view, and
\* the years offered are the distinct years present, largest first.
C9_YearFilter ==
    started =>
        LET InYear(r) == selected_year = All
                         \/ (r.year_added # NA /\ r.year_added = selected_year)
            in_year == {i \in 1..Len(df) : InYear(df[i])}
            movies_in_year == {i \in in_year : df[i].type = "Movie"}
            tv_shows_in_year == {i \in in_year : df[i].type = "TV Show"}
        IN  /\ selected_year = All => df_filtered = df
            /\ Range(IdxOf(df_filtered)) = in_year
            /\ Range(IdxOf(movies_filtered)) = movies_in_year
            /\ Range(IdxOf(tv_shows_filtered)) = tv_shows_in_year
            /\ Increasing(IdxOf(df_filtered))
            /\ Increasing(IdxOf(movies_filtered))
            /\ Increasing(IdxOf(tv_shows_filtered))
            /\ \A k \in 1..Len(df_filtered) :
                  df_filtered[k] = df[df_filtered[k].idx]
            /\ Range(IdxOf(movies_filtered)) \cap Range(IdxOf(tv_shows_filtered)) = {}
            /\ Range(IdxOf(movies_filtered)) \cup Range(IdxOf(tv_shows_filtered))
                  \subseteq Range(IdxOf(df_filtered))
            /\ \A i \in 1..Len(df) :
                  df[i].year_added = NA =>
                      (i \in Range(IdxOf(df_filtered)) <=> selected_year = All)
            /\ Range(years) = {df[i].year_added : i \in 1..Len(df)} \ {NA}
            /\ \A i, j \in 1..Len(years) : i < j => years[i] > years[j]

C9_Witness ==
    /\ started
    /\ selected_year # All
    /\ \E i \in 1..Len(df) : df[i].year_added = NA
    /\ movies_filtered # <<>>
    /\ Len(df_filtered) < Len(df)

\* The country names of a row: the pieces of its cell, stripped.
CountryList(r) ==
    IF r.country = NaN THEN <<>>
    ELSE LET pieces == str_split(r.country, Sep)
         IN  [j \in 1..Len(pieces) |-> str_strip(pieces[j])]

\* The genre names of a row: the pieces of its cell.
GenreList(r) ==
    IF r.listed_in = NaN THEN <<>> ELSE str_split(r.listed_in, Sep)

\* C5: a name with no match resolves to None and raises nothing, and the
\* map's data holds exactly the countries of the country table that
\* resolve, once each, with the table's count: an unresolved country is
\* left off the map and the pass goes on.
C5_MapHoldsResolvedCountries ==
    started =>
        /\ exception = "None"
        /\ \A i \in 1..Len(country_df) :
              /\ country_df[i].country \in DOMAIN PyCountry
              /\ country_df[i].alpha_3 = PyCountry[country_df[i].country][1]
              /\ country_df[i].count =
                    CounterGet(country_counts, country_df[i].country)
        /\ \A k \in 1..Len(country_counts) :
              LET rows == {i \in 1..Len(country_df) :
                              country_df[i].country = country_counts[k][1]}
              IN  Cardinality(rows) =
                     IF country_counts[k][1] \in DOMAIN PyCountry THEN 1 ELSE 0

C5_Witness ==
    /\ started
    /\ \E k \in 1..Len(country_counts) : country_counts[k][1] = Narnia
    /\ \E i \in 1..Len(country_df) : country_df[i].country = Niger
    /\ \A i \in 1..Len(country_df) : country_df[i].country # Narnia

\* C6 as stated: a name that has been looked up is never looked up again.
C6_LookupOncePerName ==
    [][session_state' = session_state
          => Range(fuzzy_calls') \cap DOMAIN first_lookup = {}]_vars

\* C6, amended: there is no cache.  Every pass looks up each distinct
\* country name of its filtered records once, so a name shown by several
\* passes is looked up by each of them, and every lookup of a name gives
\* what its first lookup gave.
C6_LookupEveryPass ==
    started =>
        /\ NoDup(fuzzy_calls)
        /\ Range(fuzzy_calls) =
              UNION {Range(CountryList(df_filtered[k])) : k \in 1..Len(df_filtered)}
        /\ Range(fuzzy_calls) \subseteq DOMAIN first_lookup
        /\ \A i \in 1..Len(country_df) :
              first_lookup[country_df[i].country] = country_df[i].alpha_3
        /\ \A name \in Range(fuzzy_calls) :
              first_lookup[name] # "None" =>
                  \E i \in 1..Len(country_df) : country_df[i].country = name

\* A pass of one year looks up Niger, which the first pass looked up.
C6_Witness ==
    /\ started
    /\ selected_year # All
    /\ Niger \in Range(fuzzy_calls)
    /\ Niger \in DOMAIN first_lookup
    /\ \E i \in 1..Len(country_df) : country_df[i].country = Niger

\* C10: once a country is chosen, country_data holds a record of the
\* year's records exactly when the country is one of the names of the
\* record's country list.
C10_CountryDataIsTheCountrysRecords ==
    (started /\ Truthy(selected_country)) =>
        \A k \in 1..Len(df_filtered) :
            (df_filtered[k] \in Range(country_data))
                <=> (selected_country \in Range(CountryList(df_filtered[k])))

\* C7: two passes of one configuration, the selected year and the selected
\* country, show the same page, whatever passes and clicks came between.
C7_SameConfigSamePage ==
    (started /\ memo # <<>> /\ memo[1].config = Config)
        => memo[1].views = Views

C7_Witness ==
    /\ started
    /\ memo # <<>>
    /\ memo[1].since
    /\ memo[1].config = Config
    /\ selected_year # All
    /\ Truthy(selected_country)
    /\ country_data # <<>>
    /\ movies_filtered # <<>>

\* How many times key stands in the lists of the rows of frame that
\* satisfy the predicate, given as the set of their positions.
Occurrences(key, lists, positions) ==
    Cardinality(UNION {{<<i, j>> : j \in {j \in 1..Len(lists[i]) : lists[i][j] = key}} :
                          i \in positions})

\* C2: each count of the movie genre table, of the TV show genre table and
\* of the country table is the number of times the value stands in the
\* lists of the records the table is made from (the movies, the TV shows,
\* the records of the selected year); a record with no list adds nothing
\* and no key stands for it.
C2_CountsAreOccurrences ==
    started =>
        LET InYear(r) == selected_year = All
                         \/ (r.year_added # NA /\ r.year_added = selected_year)
            in_year == {i \in 1..Len(df) : InYear(df[i])}
            movie_rows == {i \in in_year : df[i].type = "Movie"}
            tv_show_rows == {i \in in_year : df[i].type = "TV Show"}
            genre_lists == [i \in 1..Len(df) |-> GenreList(df[i])]
            country_lists == [i \in 1..Len(df) |-> CountryList(df[i])]
            keys == UNION {Range(genre_lists[i]) \cup Range(country_lists[i]) :
                              i \in 1..Len(df)}
                    \cup Range(CounterKeys(movie_genre_counts))
                    \cup Range(CounterKeys(tv_genre_counts))
                    \cup Range(CounterKeys(country_counts))
        IN  /\ NoDup(CounterKeys(movie_genre_counts))
            /\ NoDup(CounterKeys(tv_genre_counts))
            /\ NoDup(CounterKeys(country_counts))
            /\ \A k \in 1..Len(movie_genre_counts) : movie_genre_counts[k][2] > 0
            /\ \A k \in 1..Len(tv_genre_counts) : tv_genre_counts[k][2] > 0
            /\ \A k \in 1..Len(country_counts) : country_counts[k][2] > 0
            /\ \A key \in keys :
                  /\ CounterGet(movie_genre_counts, key)
                        = Occurrences(key, genre_lists, movie_rows)
                  /\ CounterGet(tv_genre_counts, key)
                        = Occurrences(key, genre_lists, tv_show_rows)
                  /\ CounterGet(country_counts, key)
                        = Occurrences(key, country_lists, in_year)

\* Two movies, listed in "a" and in "b, a", give a: 2 and b: 1.
C2_Witness ==
    /\ started
    /\ CounterGet(movie_genre_counts, <<"a">>) = 2
    /\ CounterGet(movie_genre_counts, <<"b">>) = 1
    /\ Len(movie_genre_counts) = 2
    /\ CounterGet(country_counts, Niger) = 2

RECURSIVE SumCounts(_)
SumCounts(items) ==
    IF items = <<>> THEN 0 ELSE Head(items)[2] + SumCounts(Tail(items))

Other == <<"O", "t", "h", "e", "r">>

\* C1 as stated: the counts of the top entries add up to the counts of the
\* whole table.
C1_TopCountsSumToTotal ==
    started =>
        /\ SumCounts(movie_genres) = SumCounts(movie_genre_counts)
        /\ SumCounts(tv_genres) = SumCounts(tv_genre_counts)

\* top is what most_common(TopN) keeps of counts: TopN of its items, all
\* of them if there are fewer, each with its own count, none smaller than
\* an item left out; the items left out are dropped, not summed.
KeepsTheLargest(top, counts) ==
    LET dropped == SelectSeq(counts, LAMBDA item : item \notin Range(top))
    IN  /\ Len(top) = IF Len(counts) < TopN THEN Len(counts) ELSE TopN
        /\ NoDup(CounterKeys(top))
        /\ Range(top) \subseteq Range(counts)
        /\ \A k \in 1..Len(top) : top[k][1] # Other
        /\ \A i \in 1..Len(dropped), k \in 1..Len(top) : dropped[i][2] <= top[k][2]
        /\ SumCounts(top) = SumCounts(counts) - SumCounts(dropped)

\* C1, amended: the top-N reduction keeps the N entries of largest count,
\* each with its count, and drops the others: no "Other" entry stands for
\* them, so the counts kept add up to the table's total less the counts
\* dropped, and to the total only when the table has at most N entries.
C1_TopDropsTheRest ==
    started =>
        /\ KeepsTheLargest(movie_genres, movie_genre_counts)
        /\ KeepsTheLargest(tv_genres, tv_genre_counts)
        /\ Len(movie_genre_counts) > TopN
              => SumCounts(movie_genres) < SumCounts(movie_genre_counts)
        /\ Len(tv_genre_counts) > TopN
              => SumCounts(tv_genres) < SumCounts(tv_genre_counts)

C1_Witness ==
    /\ started
    /\ Len(movie_genre_counts) > TopN
    /\ Len(movie_genres) = TopN
    /\ movie_genres[1][2] = 2
    /\ movie_genres[1] = movie_genre_counts[Len(movie_genre_counts)]
    /\ SumCounts(movie_genres) < SumCounts(movie_genre_counts)

\* top holds the items of counts, every one and nothing else, by
\* non-increasing count.
KeepsAllInOrder(top, counts) ==
    /\ Len(top) = Len(counts)
    /\ Range(top) = Range(counts)
    /\ \A k \in 1..Len(top) : top[k][1] # Other
    /\ \A i, j \in 1..Len(top) : i < j => top[i][2] >= top[j][2]

\* C8: of a table with at most N distinct values the top-N reduction gives
\* every entry, label and count, no "Other" entry and nothing else, by
\* non-increasing count.
C8_SmallTableKeptWhole ==
    started =>
        /\ Len(movie_genre_counts) <= TopN
              => KeepsAllInOrder(movie_genres, movie_genre_counts)
        /\ Len(tv_genre_counts) <= TopN
              => KeepsAllInOrder(tv_genres, tv_genre_counts)

C8_Witness ==
    /\ started
    /\ Len(movie_genre_counts) = 2
    /\ movie_genres # movie_genre_counts
    /\ movie_genres[1][2] = 2
    /\ movie_genres[2][2] = 1

RECURSIVE Pow10(_)
Pow10(n) == IF n = 0 THEN 1 ELSE 10 * Pow10(n - 1)

\* The number a text of digits writes.
RECURSIVE Decimal(_)
Decimal(digits) ==
    IF digits = <<>> THEN 0
    ELSE DigitValue[Head(digits)] * Pow10(Len(digits) - 1) + Decimal(Tail(digits))

\* The run of digits that starts at position i of cell.
RunAt(cell, i) ==
    LET j == CHOOSE j \in i..Len(cell) :
                 /\ \A k \in i..j : IsDigit(cell[k])
                 /\ j = Len(cell) \/ ~IsDigit(cell[j + 1])
    IN  SubSeq(cell, i, j)

\* C4 as stated: duration_minutes is the number written by the digits that
\* start the cell, and is missing when the cell is missing or starts with
\* another character.
C4_LeadingDigitsOnly ==
    started =>
        \A k \in 1..Len(movies_filtered) :
            LET cell == movies_filtered[k].duration
            IN  movies_filtered[k].duration_minutes =
                   IF cell # NaN /\ cell # <<>> /\ IsDigit(cell[1])
                   THEN Decimal(RunAt(cell, 1))
                   ELSE NA

\* C4, amended: duration_minutes is the number written by the first run of
\* digits of the cell, wherever in the cell it starts, and is missing (no
\* error) when the cell is missing or holds no digit.
C4_FirstDigitsAnywhere ==
    started =>
        /\ exception = "None"
        /\ \A k \in 1..Len(movies_filtered) :
              LET cell == movies_filtered[k].duration
                  digits == IF cell = NaN THEN {}
                            ELSE {i \in 1..Len(cell) : IsDigit(cell[i])}
              IN  movies_filtered[k].duration_minutes =
                     IF digits = {} THEN NA
                     ELSE Decimal(RunAt(cell, CHOOSE i \in digits :
                                                  \A i2 \in digits : i <= i2))

C4_Witness ==
    /\ started
    /\ Len(movies_filtered) = 2
    /\ movies_filtered[1].duration = <<"m", "9", "0">>
    /\ movies_filtered[1].duration_minutes = 90
    /\ movies_filtered[2].duration = NaN
    /\ movies_filtered[2].duration_minutes = NA

====
